---- MODULE Spec2Model ----
(***************************************************************************)
(* A model of the scene composition engine of image_generator:             *)
(* ImageGenerator (generator.py), the scene elements and ElementFactory    *)
(* (elements.py) and GeneratorConfig (config.py).                          *)
(*                                                                         *)
(* Text (prompts, keywords, file names) is a sequence of one-character     *)
(* strings, so that str.lower, the `in` substring test and str.replace are *)
(* computed as Python computes them.                                       *)
(***************************************************************************)
EXTENDS Integers, Sequences, FiniteSets, TLC

VARIABLES
    pWords,     \* parse harness: the words the prompt under test is made of
    pResult,    \* parse harness: what _parse_prompt returned
    pPc,        \* parse harness: "ready" | "parsed"
    cfg,        \* self.config of the composer (a GeneratorConfig)
    rng,        \* the process-wide state of the random module
    registry,   \* ElementFactory._elements: type name -> class
    cache,      \* self._element_cache: type name -> element instance
    creates,    \* ElementFactory.create calls this composer made, per type
    element,    \* the local `element`: what _get_element returned last
    others,     \* the other composers of the process: config, cache, creates
    nOps,       \* operations the session has performed so far
    pc,         \* where the process is
    runNo,      \* how many times the program has been started
    prev,       \* what the previous run of the program produced
    call,       \* the call made on the composer: kind and prompt list
    bIdx,       \* generate_batch: index of the prompt being generated
    results,    \* generate_batch: output_paths so far
    started,    \* indices of the prompts generate has been called for
    files,      \* the output directory: path -> saved image
    drawn,      \* the drawings generate has finished in this run
    err,        \* the exception that ended the call, "" when none
    prompt,     \* generate: its prompt argument
    outPath,    \* generate: its output_path
    types,      \* generate: element_types
    tIdx,       \* generate: index of the type being processed
    counts,     \* generate: the count chosen for each type so far
    canvas,     \* generate: the draw calls made on the image so far
    count,      \* _generate_positions: its count argument
    positions,  \* _generate_positions: accepted positions
    attempts,   \* _generate_positions: attempts made
    dIdx        \* generate: index of the position being drawn

parseVars == <<pWords, pResult, pPc>>
procVars ==
    <<cfg, registry, others, nOps, runNo, prev, call, bIdx, results, started,
      files, drawn>>
genVars == <<prompt, outPath, types, tIdx, counts, canvas>>
planVars == <<count, positions, attempts, dIdx>>

vars ==
    <<parseVars, procVars, genVars, planVars, rng, cache, creates, element, pc,
      err>>

----------------------------------------------------------------------------
(* Text helpers *)

Range(s) == {s[i] : i \in 1..Len(s)}

UpperChars ==
    <<"A", "B", "C", "D", "E", "F", "G", "H", "I", "J", "K", "L", "M",
      "N", "O", "P", "Q", "R", "S", "T", "U", "V", "W", "X", "Y", "Z">>

LowerChars ==
    <<"a", "b", "c", "d", "e", "f", "g", "h", "i", "j", "k", "l", "m",
      "n", "o", "p", "q", "r", "s", "t", "u", "v", "w", "x", "y", "z">>

\* a mis-coded parser that forgets prompt.lower()
LowerIdentity(s) == s

\* str.lower()
Lower(s) ==
    [i \in 1..Len(s) |->
        IF \E k \in 1..Len(UpperChars) : UpperChars[k] = s[i]
        THEN LowerChars[CHOOSE k \in 1..Len(UpperChars) : UpperChars[k] = s[i]]
        ELSE s[i]]

\* str.upper(), used only to build prompts in another letter case
Upper(s) ==
    [i \in 1..Len(s) |->
        IF \E k \in 1..Len(LowerChars) : LowerChars[k] = s[i]
        THEN UpperChars[CHOOSE k \in 1..Len(LowerChars) : LowerChars[k] = s[i]]
        ELSE s[i]]

\* a match that wants the word to start and end at a space or at an end of
\* the text (tokenised matching)
ContainsToken(text, word) ==
    \E i \in 1..(Len(text) - Len(word) + 1) :
        /\ SubSeq(text, i, i + Len(word) - 1) = word
        /\ (i = 1 \/ text[i - 1] = " ")
        /\ (i + Len(word) - 1 = Len(text) \/ text[i + Len(word)] = " ")

\* Python's `word in text` on strings: substring containment
Contains(text, word) ==
    \E i \in 1..(Len(text) - Len(word) + 1) :
        SubSeq(text, i, i + Len(word) - 1) = word

\* " ".join(words)
RECURSIVE JoinWords(_)
JoinWords(ws) ==
    IF Len(ws) = 0 THEN <<>>
    ELSE IF Len(ws) = 1 THEN ws[1]
    ELSE ws[1] \o <<" ">> \o JoinWords(Tail(ws))

----------------------------------------------------------------------------
(* ImageGenerator._parse_prompt *)

\* the keywords dict of _parse_prompt, in insertion (= iteration) order
keywords ==
  << [type |-> "sun", words |-> << <<"s", "u", "n">>,
        <<"s", "u", "n", "n", "y">> >>],
     [type |-> "tree", words |-> << <<"t", "r", "e", "e">>,
        <<"f", "o", "r", "e", "s", "t">>,
        <<"w", "o", "o", "d", "s">> >>],
     [type |-> "bird", words |-> << <<"b", "i", "r", "d">>,
        <<"b", "i", "r", "d", "s">>,
        <<"f", "l", "y", "i", "n", "g">> >>],
     [type |-> "mountain", words |-> << <<"m", "o", "u", "n", "t", "a", "i", "n">>,
        <<"m", "o", "u", "n", "t", "a", "i", "n", "s">>,
        <<"h", "i", "l", "l">>,
        <<"h", "i", "l", "l", "s">> >>],
     [type |-> "river", words |-> << <<"r", "i", "v", "e", "r">>,
        <<"s", "t", "r", "e", "a", "m">>,
        <<"w", "a", "t", "e", "r">> >>],
     [type |-> "cloud", words |-> << <<"c", "l", "o", "u", "d">>,
        <<"c", "l", "o", "u", "d", "s">>,
        <<"c", "l", "o", "u", "d", "y">> >>],
     [type |-> "star", words |-> << <<"s", "t", "a", "r">>,
        <<"s", "t", "a", "r", "s">>,
        <<"n", "i", "g", "h", "t">> >>],
     [type |-> "cow", words |-> << <<"c", "o", "w">>,
        <<"c", "o", "w", "s">>,
        <<"c", "a", "t", "t", "l", "e">> >>],
     [type |-> "goat", words |-> << <<"g", "o", "a", "t">>,
        <<"g", "o", "a", "t", "s">> >>] >>

\* any(word in prompt_lower for word in words)
AnyWordIn(words, prompt_lower) ==
    \E j \in 1..Len(words) : Contains(prompt_lower, words[j])

\* the loop of _parse_prompt over keywords.items() from entry k on
RECURSIVE ParseFrom(_, _)
ParseFrom(k, prompt_lower) ==
    IF k > Len(keywords) THEN <<>>
    ELSE (IF AnyWordIn(keywords[k].words, prompt_lower)
          THEN <<keywords[k].type>> ELSE <<>>)
         \o ParseFrom(k + 1, prompt_lower)

parse_prompt(text) == ParseFrom(1, Lower(text))

----------------------------------------------------------------------------
(* GeneratorConfig (config.py) *)

NoSeed == -1

\* the default of element_colors
DefaultColors ==
    [t \in {"sun", "tree", "bird", "mountain", "river", "cloud", "star",
            "cow", "goat"} |->
        CASE t = "sun" -> "yellow"
          [] t = "tree" -> "forestgreen"
          [] t = "mountain" -> "#a0c4ff"
          [] t = "river" -> "blue"
          [] t \in {"cloud", "star"} -> "white"
          [] OTHER -> "black"]

\* GeneratorConfig(): the field defaults
DefaultConfig ==
    [ width |-> 800, height |-> 600,
      output_format |-> <<"P", "N", "G">>, output_quality |-> 95,
      element_colors |-> DefaultColors,
      min_elements |-> 5, max_elements |-> 20,
      seed |-> NoSeed, parallel_processing |-> FALSE ]

\* the Field(ge=..., le=...) constraints pydantic checks on construction
ValidConfig(c) ==
    /\ c.width >= 100 /\ c.width <= 4000
    /\ c.height >= 100 /\ c.height <= 4000
    /\ c.output_quality >= 1 /\ c.output_quality <= 100
    /\ c.max_elements >= 1 /\ c.max_elements <= 100
    /\ c.min_elements >= 1 /\ c.min_elements <= 50

----------------------------------------------------------------------------
(* The random module *)

\* how many values of a range a draw can take
NSamples == 3

\* the i-th of the NSamples values of lo..hi a draw can take (i in 0..NSamples-1);
\* both ends of the range are among them
Sample(lo, hi, i) == lo + (i * (hi - lo)) \div (NSamples - 1)

\* the generator's recurrence: the next state is a fixed function of the state
RngStep(s) == (s * 75 + 74) % 65537

\* random.seed(seed): the state becomes a fixed function of the seed
SeededRng(seed) == [free |-> FALSE, s |-> seed]

\* a generator about which nothing is known: every draw can give every value
FreeRng == [free |-> TRUE, s |-> 0]

\* random.randint(lo, hi) for lo <= hi: the outcomes [v, rng] it can have
randint(r, lo, hi) ==
    IF r.free
    THEN {[v |-> Sample(lo, hi, i), rng |-> r] : i \in 0..(NSamples - 1)}
    ELSE LET s2 == RngStep(r.s)
         IN  {[v |-> Sample(lo, hi, s2 % NSamples), rng |-> [r EXCEPT !.s = s2]]}

----------------------------------------------------------------------------
(* Scene elements and ElementFactory (elements.py) *)

\* ElementFactory._elements as the class statement leaves it
DefaultElements ==
    [t \in {"sun", "tree", "bird", "mountain", "river", "cloud", "star",
            "cow", "goat"} |->
        CASE t = "sun" -> "Sun"
          [] t = "tree" -> "Tree"
          [] t = "bird" -> "Bird"
          [] t = "mountain" -> "Mountain"
          [] t = "river" -> "River"
          [] t = "cloud" -> "Cloud"
          [] t = "star" -> "Star"
          [] t = "cow" -> "Cow"
          [] t = "goat" -> "Goat"]

\* classes a caller may hand to register_element: Castle is a SceneElement
\* subclass that defines draw and get_bounds (a box of 900 x 700), NoBounds a
\* SceneElement subclass that defines draw only, NotElement a class outside
\* the hierarchy
UserClasses == {"Castle", "NoBounds", "NotElement"}

\* issubclass(element_class, SceneElement)
is_scene_element(cls) == cls # "NotElement"

\* the class overrides SceneElement.get_bounds, which raises
\* NotImplementedError
has_get_bounds(cls) == cls \notin {"NoBounds", "NotElement"}

\* the names a type can be registered under here
TypeNames == DOMAIN DefaultElements \cup {"castle"}

\* cls._elements[name] = element_class
register_element(reg, name, cls) ==
    [t \in DOMAIN reg \cup {name} |-> IF t = name THEN cls ELSE reg[t]]

\* ElementFactory.create for a registered name: a new instance of the
\* registered class, the no-th this composer creates for the type
create(reg, element_type, color, no) ==
    [cls |-> reg[element_type], color |-> color, no |-> no]

\* a composer that has created nothing yet, and no element fetched yet
NoCreates == [t \in TypeNames |-> 0]
NoElement == [cls |-> "", color |-> "", no |-> 0]

\* get_bounds of each class at style.size = 1.0, the only size _get_element
\* gives: <<x0, y0, x1, y1>>
get_bounds(cls, position) ==
    LET x == position[1]
        y == position[2]
    IN  CASE cls = "Sun" -> <<x - 60, y - 60, x + 60, y + 60>>
          [] cls = "Tree" -> <<x - 50, y - 50, x + 50, y + 60>>
          [] cls = "Bird" -> <<x - 10, y - 5, x + 20 + 5, y + 20>>
          [] cls = "Mountain" -> <<x, y - 200 \div 2, x + 400, y + 200>>
          [] cls = "River" -> <<x, y, x + 800, y + 200>>
          [] cls = "Cloud" -> <<x, y, x + 100 + 80, y + 100 \div 3>>
          [] cls = "Star" -> <<x, y, x + 4, y + 4>>
          [] cls = "Cow" -> <<x - 25, y, x + 60, y + 30 + 20>>
          [] cls = "Goat" -> <<x - 15, y, x + 40, y + 20 + 15>>
          [] cls = "Castle" -> <<x - 450, y - 700, x + 450, y>>

\* SceneElement.intersects(self, other, pos1, pos2) with other = self
intersects(cls, pos1, pos2) ==
    LET bounds1 == get_bounds(cls, pos1)
        bounds2 == get_bounds(cls, pos2)
    IN  ~(bounds1[3] < bounds2[1] \/ bounds1[1] > bounds2[3] \/
          bounds1[4] < bounds2[2] \/ bounds1[2] > bounds2[4])

\* the randint ranges element.draw consumes, in order: River draws one wave
\* height per 50 pixels of its 800, Cow draws x, y and size of 5 spots
DecoRanges(cls) ==
    CASE cls = "River" -> [i \in 1..16 |-> <<5, 15>>]
      [] cls = "Cow" -> [i \in 1..15 |->
                            IF i % 3 = 1 THEN <<0, 60 - 10>>
                            ELSE IF i % 3 = 2 THEN <<0, 30 - 10>>
                            ELSE <<5, 15>>]
      [] OTHER -> <<>>

\* the outcomes [v, rng] of drawing each range of `ranges` in turn, v the
\* sequence of values drawn
RECURSIVE randints(_, _)
randints(r, ranges) ==
    IF Len(ranges) = 0 THEN {[v |-> <<>>, rng |-> r]}
    ELSE UNION { { [v |-> <<o.v>> \o rest.v, rng |-> rest.rng] :
                       rest \in randints(o.rng, Tail(ranges)) } :
                 o \in randint(r, ranges[1][1], ranges[1][2]) }

----------------------------------------------------------------------------
(* ImageGenerator._get_element and _generate_positions (generator.py) *)

\* the constraints dict of _generate_positions and its default
y_range(element_type, height) ==
    CASE element_type = "sun" -> <<50, 150>>
      [] element_type = "bird" -> <<50, 300>>
      [] element_type = "cloud" -> <<50, 200>>
      [] element_type = "star" -> <<50, 300>>
      [] element_type = "tree" -> <<350, 500>>
      [] element_type = "mountain" -> <<300, 600>>
      [] element_type = "river" -> <<400, 600>>
      [] element_type = "cow" -> <<400, 500>>
      [] element_type = "goat" -> <<450, 550>>
      [] OTHER -> <<0, height>>

\* an attempt cap one attempt per requested position too generous
max_attempts_11(n) == n * 11

\* an attempt cap one attempt per requested position too strict
max_attempts_9(n) == n * 9

\* a loop that is never entered
max_attempts_none(n) == 0

\* max_attempts = count * 10
max_attempts(n) == n * 10

\* an overlap loop that starts at the second accepted position
position_valid_skip_first(cls, cand, accepted) ==
    \A i \in 2..Len(accepted) : ~intersects(cls, cand, accepted[i])

\* an overlap loop that also tests the candidate against everything drawn on
\* the canvas so far, whatever its type
position_valid_any_type(cls, cand, accepted) ==
    /\ \A i \in 1..Len(accepted) : ~intersects(cls, cand, accepted[i])
    /\ \A i \in 1..Len(canvas) :
          LET bounds1 == get_bounds(cls, cand)
              bounds2 == get_bounds(canvas[i].cls, canvas[i].position)
          IN  bounds1[3] < bounds2[1] \/ bounds1[1] > bounds2[3] \/
              bounds1[4] < bounds2[2] \/ bounds1[2] > bounds2[4]

\* the for loop over positions: the candidate intersects no accepted position
position_valid(cls, cand, accepted) ==
    \A i \in 1..Len(accepted) : ~intersects(cls, cand, accepted[i])

\* a _get_element that asks the factory every time
get_element_uncached(c, reg, element_type, color, no) ==
    [t \in DOMAIN c \cup {element_type} |->
        IF t = element_type THEN create(reg, element_type, color, no)
        ELSE c[t]]

\* a _get_element that drops a cached instance when the factory has another
\* class under the name by now
get_element_refresh(c, reg, element_type, color, no) ==
    IF /\ element_type \in DOMAIN c
       /\ \/ element_type \notin DOMAIN reg
          \/ c[element_type].cls = reg[element_type]
    THEN c
    ELSE [t \in DOMAIN c \cup {element_type} |->
             IF t = element_type THEN create(reg, element_type, color, no)
             ELSE c[t]]

\* self._element_cache after _get_element(element_type); ElementFactory.create
\* is called only for a type that is not cached
get_element(c, reg, element_type, color, no) ==
    IF element_type \in DOMAIN c THEN c
    ELSE [t \in DOMAIN c \cup {element_type} |->
             IF t = element_type THEN create(reg, element_type, color, no)
             ELSE c[t]]

\* self.config.element_colors.get(element_type, "black")
element_color(c, element_type) ==
    IF element_type \in DOMAIN c.element_colors
    THEN c.element_colors[element_type]
    ELSE "black"

\* _get_element(element_type) for a type that is cached or registered: the
\* cache after the call, the instance returned, one more create counted when
\* the factory made an instance
GetElement(element_type) ==
    /\ cache' = get_element(cache, registry, element_type,
                            element_color(cfg, element_type),
                            creates[element_type] + 1)
    /\ element' = cache'[element_type]
    /\ creates' = IF element_type \in DOMAIN cache
                     /\ cache'[element_type] = cache[element_type]
                  THEN creates
                  ELSE [creates EXCEPT ![element_type] = @ + 1]

\* an entry that leaves an empty cache entry behind when the factory raises
PlanBeginMarksFailure ==
    /\ pc = "planBegin"
    /\ IF types[tIdx] \in DOMAIN cache \/ types[tIdx] \in DOMAIN registry
       THEN /\ GetElement(types[tIdx])
            /\ pc' = "plan"
            /\ err' = err
       ELSE /\ pc' = "exit"
            /\ err' = "ValueError: unknown element type"
            /\ cache' = [t \in DOMAIN cache \cup {types[tIdx]} |->
                            IF t = types[tIdx] THEN NoElement ELSE cache[t]]
            /\ UNCHANGED <<creates, element>>
    /\ positions' = <<>>
    /\ attempts' = 0
    /\ UNCHANGED <<parseVars, procVars, genVars, count, dIdx, rng>>

\* entry of _generate_positions: positions = [], the element is fetched (and
\* created on a cache miss), attempts = 0
PlanBegin ==
    /\ pc = "planBegin"
    /\ IF types[tIdx] \in DOMAIN cache \/ types[tIdx] \in DOMAIN registry
       THEN /\ GetElement(types[tIdx])
            /\ pc' = "plan"
            /\ err' = err
       ELSE /\ pc' = "exit"
            /\ err' = "ValueError: unknown element type"
            /\ UNCHANGED <<cache, creates, element>>
    /\ positions' = <<>>
    /\ attempts' = 0
    /\ UNCHANGED <<parseVars, procVars, genVars, count, dIdx, rng>>

\* one iteration of the while loop: draw x and y, test the candidate against
\* every accepted position, append it when none intersects, count the attempt.
\* The first overlap test of an element whose class inherits
\* SceneElement.get_bounds raises NotImplementedError.
PlanAttempt ==
    /\ pc = "plan"
    /\ Len(positions) < count /\ attempts < max_attempts(count)
    /\ \E ox \in randint(rng, 50, cfg.width - 50) :
       \E oy \in randint(ox.rng, y_range(types[tIdx], cfg.height)[1],
                                 y_range(types[tIdx], cfg.height)[2]) :
          LET cand == <<ox.v, oy.v>>
          IN  /\ rng' = oy.rng
              /\ IF Len(positions) > 0 /\ ~has_get_bounds(element.cls)
                 THEN /\ err' = "NotImplementedError"
                      /\ pc' = "exit"
                      /\ UNCHANGED <<positions, attempts>>
                 ELSE /\ positions' =
                            IF position_valid(element.cls, cand, positions)
                            THEN Append(positions, cand)
                            ELSE positions
                      /\ attempts' = attempts + 1
                      /\ UNCHANGED <<pc, err>>
    /\ UNCHANGED <<parseVars, procVars, genVars, count, dIdx, cache, creates,
                   element>>

\* the loop condition fails: return positions; back in generate,
\* element = self._get_element(element_type)
PlanReturn ==
    /\ pc = "plan"
    /\ ~(Len(positions) < count /\ attempts < max_attempts(count))
    /\ GetElement(types[tIdx])
    /\ pc' = "draw"
    /\ dIdx' = 1
    /\ UNCHANGED <<parseVars, procVars, genVars, count, positions, attempts,
                   rng, err>>

----------------------------------------------------------------------------
(* ImageGenerator.__init__, generate and generate_batch (generator.py) *)

\* a file name that keeps the spaces of the prompt
ReplaceNothing(s) == s

\* prompt.replace(' ', '_')
ReplaceSpaces(s) == [i \in 1..Len(s) |-> IF s[i] = " " THEN "_" ELSE s[i]]

\* f"{prompt.replace(' ', '_')}.{self.config.output_format.lower()}" under the
\* one output directory of the run
OutputPath(p, c) == ReplaceSpaces(p) \o <<".">> \o Lower(c.output_format)

EmptyMap == [x \in {} |-> <<>>]

\* a constructor that never seeds the random module
setup_random_seed_never(c, r) == r

\* _setup_random_seed: random.seed(seed) when a seed is configured
setup_random_seed(c, r) == IF c.seed # NoSeed THEN SeededRng(c.seed) ELSE r

\* ImageGenerator(config): keep the config, seed, start with an empty cache
Construct ==
    /\ pc = "new"
    /\ rng' = setup_random_seed(cfg, rng)
    /\ cache' = EmptyMap
    /\ creates' = NoCreates
    /\ pc' = "idle"
    /\ UNCHANGED <<parseVars, procVars, genVars, planVars, element, err>>

\* a fallback that names a type the factory does not register by default
element_types_castle(p) ==
    IF parse_prompt(p) = <<>> THEN <<"tree", "castle">> ELSE parse_prompt(p)

\* element_types of generate: the parsed types, or the default elements
element_types(p) ==
    IF parse_prompt(p) = <<>> THEN <<"tree", "sun">> ELSE parse_prompt(p)

\* entry of generate(p, path): new canvas, parse the prompt
GenerateBegin(p, path) ==
    /\ prompt' = p
    /\ outPath' = path
    /\ canvas' = <<>>
    /\ counts' = <<>>
    /\ types' = element_types(p)
    /\ tIdx' = 1
    /\ pc' = "count"

\* the program calls generator.generate(prompt)
CallGenerate ==
    /\ pc = "idle" /\ call.kind = "generate"
    /\ GenerateBegin(call.prompts[1], OutputPath(call.prompts[1], cfg))
    /\ started' = started \cup {1}
    /\ UNCHANGED <<parseVars, cfg, registry, others, nOps, runNo, prev, call,
                   bIdx, results, files, drawn, planVars, rng, cache, creates,
                   element, err>>

\* upper end of the count range
count_hi(c, element_types_) ==
    IF c.max_elements < Len(element_types_) * 3 THEN c.max_elements
    ELSE Len(element_types_) * 3

\* top of the for loop: count = random.randint(min_elements, min(...)), which
\* raises ValueError on an empty range
ChooseCount ==
    /\ pc = "count" /\ tIdx <= Len(types)
    /\ IF cfg.min_elements > count_hi(cfg, types)
       THEN /\ err' = "ValueError: empty range"
            /\ pc' = "exit"
            /\ UNCHANGED <<count, counts, rng>>
       ELSE /\ \E o \in randint(rng, cfg.min_elements, count_hi(cfg, types)) :
                 /\ count' = o.v
                 /\ counts' = Append(counts, <<types[tIdx], o.v>>)
                 /\ rng' = o.rng
            /\ pc' = "planBegin"
            /\ err' = err
    /\ UNCHANGED <<parseVars, procVars, prompt, outPath, types, tIdx, canvas,
                   positions, attempts, dIdx, cache, creates, element>>

\* a draw loop that walks the planned positions from the last to the first
DrawElementBackwards ==
    /\ pc = "draw" /\ dIdx <= Len(positions)
    /\ LET cls == element.cls
       IN  \E d \in randints(rng, DecoRanges(cls)) :
              /\ canvas' = Append(canvas,
                               [type |-> types[tIdx], cls |-> cls,
                                color |-> element.color, no |-> element.no,
                                position |->
                                    positions[Len(positions) + 1 - dIdx],
                                deco |-> d.v])
              /\ rng' = d.rng
    /\ dIdx' = dIdx + 1
    /\ UNCHANGED <<parseVars, procVars, prompt, outPath, types, tIdx, counts,
                   count, positions, attempts, cache, creates, element, pc,
                   err>>

\* element.draw(draw, position) for the next planned position; River and Cow
\* draw their decoration from the random module
DrawElement ==
    /\ pc = "draw" /\ dIdx <= Len(positions)
    /\ LET cls == element.cls
       IN  \E d \in randints(rng, DecoRanges(cls)) :
              /\ canvas' = Append(canvas, [type |-> types[tIdx], cls |-> cls,
                                           color |-> element.color,
                                           no |-> element.no,
                                           position |-> positions[dIdx],
                                           deco |-> d.v])
              /\ rng' = d.rng
    /\ dIdx' = dIdx + 1
    /\ UNCHANGED <<parseVars, procVars, prompt, outPath, types, tIdx, counts,
                   count, positions, attempts, cache, creates, element, pc,
                   err>>

\* all positions of the type are drawn: next element_type
NextType ==
    /\ pc = "draw" /\ dIdx > Len(positions)
    /\ tIdx' = tIdx + 1
    /\ pc' = "count"
    /\ UNCHANGED <<parseVars, procVars, prompt, outPath, types, counts, canvas,
                   planVars, rng, cache, creates, element, err>>

\* the run's record of one finished drawing
Drawing == [prompt |-> prompt, counts |-> counts, canvas |-> canvas]

\* img.save(output_path, ...): the write succeeds or raises OSError; on
\* success generate returns to its caller
Save ==
    /\ pc = "count" /\ tIdx > Len(types)
    /\ \E ok \in BOOLEAN :
          IF ok
          THEN /\ files' = [f \in DOMAIN files \cup {outPath} |->
                               IF f = outPath THEN canvas ELSE files[f]]
               /\ err' = err
               /\ IF call.kind = "batch"
                  THEN /\ results' = Append(results, outPath)
                       /\ bIdx' = bIdx + 1
                       /\ pc' = "batch"
                  ELSE /\ results' = <<outPath>>
                       /\ bIdx' = bIdx
                       /\ pc' = "exit"
          ELSE /\ err' = "OSError"
               /\ pc' = "exit"
               /\ UNCHANGED <<files, results, bIdx>>
    /\ drawn' = Append(drawn, Drawing)
    /\ UNCHANGED <<parseVars, cfg, registry, others, nOps, runNo, prev, call,
                   started, genVars, planVars, rng, cache, creates, element>>

\* generate_batch in sequential mode: enter _generate_batch_sequential
CallBatchSequential ==
    /\ pc = "idle" /\ call.kind = "batch" /\ ~cfg.parallel_processing
    /\ results' = <<>>
    /\ bIdx' = 1
    /\ pc' = "batch"
    /\ UNCHANGED <<parseVars, cfg, registry, others, nOps, runNo, prev, call,
                   started, files, drawn, genVars, planVars, rng, cache,
                   creates, element, err>>

\* a loop that walks the prompt list from its end
BatchNextBackwards ==
    /\ pc = "batch" /\ bIdx <= Len(call.prompts)
    /\ GenerateBegin(call.prompts[Len(call.prompts) + 1 - bIdx],
                     OutputPath(call.prompts[Len(call.prompts) + 1 - bIdx],
                                cfg))
    /\ started' = started \cup {Len(call.prompts) + 1 - bIdx}
    /\ UNCHANGED <<parseVars, cfg, registry, others, nOps, runNo, prev, call,
                   bIdx, results, files, drawn, planVars, rng, cache, creates,
                   element, err>>

\* next iteration of the for loop of _generate_batch_sequential
BatchNext ==
    /\ pc = "batch" /\ bIdx <= Len(call.prompts)
    /\ GenerateBegin(call.prompts[bIdx], OutputPath(call.prompts[bIdx], cfg))
    /\ started' = started \cup {bIdx}
    /\ UNCHANGED <<parseVars, cfg, registry, others, nOps, runNo, prev, call,
                   bIdx, results, files, drawn, planVars, rng, cache, creates,
                   element, err>>

\* the for loop is over: return output_paths
BatchReturn ==
    /\ pc = "batch" /\ bIdx > Len(call.prompts)
    /\ pc' = "exit"
    /\ UNCHANGED <<parseVars, procVars, genVars, planVars, rng, cache, creates,
                   element, err>>

\* generate_batch in parallel mode: executor.map(generate_worker, prompts)
\* pickles generate_worker for each prompt to send it to a worker process.
\* generate_worker is a function local to _generate_batch_parallel, which
\* pickle refuses, so the first result raises and no worker ever runs
\* generate. With no prompts nothing is submitted and [] is returned.
CallBatchParallel ==
    /\ pc = "idle" /\ call.kind = "batch" /\ cfg.parallel_processing
    /\ results' = <<>>
    /\ err' = IF Len(call.prompts) = 0 THEN err ELSE "PicklingError"
    /\ pc' = "exit"
    /\ UNCHANGED <<parseVars, cfg, registry, others, nOps, runNo, prev, call,
                   bIdx, started, files, drawn, genVars, planVars, rng, cache,
                   creates, element>>

----------------------------------------------------------------------------
(* The program: one configuration and one call, run MaxRuns times *)

MaxRuns == 2
NEntropy == 2

\* the random module of a process that has not called random.seed: seeded
\* from OS entropy at import, one of NEntropy states here
EntropyRng(e) == [free |-> FALSE, s |-> 40000 + e]

SeededDefault(s) == [DefaultConfig EXCEPT !.seed = s]

Configs ==
    { DefaultConfig,
      SeededDefault(42),
      [SeededDefault(7) EXCEPT !.min_elements = 1, !.max_elements = 2],
      [DefaultConfig EXCEPT !.min_elements = 1, !.max_elements = 2],
      [SeededDefault(7) EXCEPT !.min_elements = 1, !.max_elements = 2,
                               !.parallel_processing = TRUE],
      [DefaultConfig EXCEPT !.min_elements = 2, !.max_elements = 3,
                            !.width = 100, !.height = 100,
                            !.output_format = <<"J", "P", "E", "G">>] }

P_empty == <<>>
P_sun == <<"s", "u", "n">>
P_sunnyMountainRiver ==
    <<"a", " ", "s", "u", "n", "n", "y", " ", "m", "o", "u", "n", "t", "a",
      "i", "n", " ", "w", "i", "t", "h", " ", "a", " ", "r", "i", "v", "e", "r">>
P_cowRiver ==
    <<"c", "o", "w", " ", "b", "y", " ", "t", "h", "e", " ", "r", "i", "v",
      "e", "r">>
P_starGoat ==
    <<"g", "o", "a", "t", " ", "u", "n", "d", "e", "r", " ", "s", "t", "a",
      "r", "s">>

P_aSun == <<"a", " ", "s", "u", "n">>
P_a_sun == <<"a", "_", "s", "u", "n">>

Calls ==
    { [kind |-> "generate", prompts |-> <<P_sun>>],
      [kind |-> "generate", prompts |-> <<P_empty>>],
      [kind |-> "generate", prompts |-> <<P_sunnyMountainRiver>>],
      [kind |-> "generate", prompts |-> <<P_cowRiver>>],
      [kind |-> "batch", prompts |-> <<>>],
      [kind |-> "batch", prompts |-> <<P_starGoat, P_cowRiver>>],
      [kind |-> "batch", prompts |-> <<P_cowRiver, P_empty, P_cowRiver>>],
      [kind |-> "batch", prompts |-> <<P_sun, P_starGoat>>],
      [kind |-> "batch", prompts |-> <<P_aSun, P_a_sun>>] }

NoRun ==
    [counts |-> <<>>, canvas |-> <<>>, drawn |-> <<>>, results |-> <<>>,
     err |-> ""]

IdleParse == pWords = <<>> /\ pResult = <<>> /\ pPc = "off"

IdleGenerate ==
    /\ prompt = <<>> /\ outPath = <<>> /\ types = <<>> /\ tIdx = 1
    /\ counts = <<>> /\ canvas = <<>>
    /\ count = 0 /\ positions = <<>> /\ attempts = 0 /\ dIdx = 1

Init ==
    /\ IdleParse
    /\ IdleGenerate
    /\ cfg \in Configs
    /\ call \in Calls
    /\ rng \in {EntropyRng(e) : e \in 1..NEntropy}
    /\ registry = DefaultElements
    /\ cache = EmptyMap /\ creates = NoCreates /\ element = NoElement
    /\ others = <<>> /\ nOps = 0
    /\ pc = "new"
    /\ runNo = 1
    /\ prev = NoRun
    /\ bIdx = 1 /\ results = <<>> /\ started = {} /\ drawn = <<>>
    /\ files = EmptyMap
    /\ err = ""

\* the process ends and the program is started again with the same
\* configuration and call; the output directory stays as it is
Rerun ==
    /\ pc = "exit" /\ runNo < MaxRuns
    /\ prev' = [counts |-> counts, canvas |-> canvas, drawn |-> drawn,
                results |-> results, err |-> err]
    /\ runNo' = runNo + 1
    /\ rng' \in {EntropyRng(e) : e \in 1..NEntropy}
    /\ registry' = DefaultElements
    /\ cache' = EmptyMap /\ creates' = NoCreates /\ element' = NoElement
    /\ pc' = "new"
    /\ bIdx' = 1 /\ results' = <<>> /\ started' = {} /\ drawn' = <<>>
    /\ err' = ""
    /\ prompt' = <<>> /\ outPath' = <<>> /\ types' = <<>> /\ tIdx' = 1
    /\ counts' = <<>> /\ canvas' = <<>>
    /\ count' = 0 /\ positions' = <<>> /\ attempts' = 0 /\ dIdx' = 1
    /\ UNCHANGED <<parseVars, cfg, call, files, others, nOps>>

Next ==
    \/ Construct
    \/ CallGenerate
    \/ CallBatchSequential
    \/ CallBatchParallel
    \/ BatchNext
    \/ BatchReturn
    \/ ChooseCount
    \/ PlanBegin
    \/ PlanAttempt
    \/ PlanReturn
    \/ DrawElement
    \/ NextType
    \/ Save
    \/ Rerun

Spec == Init /\ [][Next]_vars

----------------------------------------------------------------------------
(* The command line: main() of cli.py up to the composer it constructs *)

\* what a --config file can say about size and quality
FileConfigs ==
    { [DefaultConfig EXCEPT !.width = w, !.height = h, !.output_quality = q] :
        w \in {99, 100, 1024, 4000}, h \in {100, 768, 4001},
        q \in {0, 1, 80, 100} }

\* the parsed --width, --height and --quality: 0 stands for an option that
\* was not given, which `if args.width:` treats like a given 0
CliArgs ==
    [width : {0, 50, 1920}, height : {0, 1080, 5000}, quality : {0, 90, 150}]

\* load_config: the defaults without --config, else GeneratorConfig(**data),
\* which raises ValidationError for a value outside its Field range
LoadConfig ==
    /\ pc = "load"
    /\ \E data \in {DefaultConfig} \cup FileConfigs :
          IF ValidConfig(data)
          THEN cfg' = data /\ pc' = "args" /\ err' = err
          ELSE cfg' = cfg /\ pc' = "exit" /\ err' = "ValidationError"
    /\ UNCHANGED <<parseVars, registry, others, nOps, runNo, prev, call, bIdx,
                   results, started, files, drawn, genVars, planVars, rng,
                   cache, creates, element>>

\* config after the `if args.x: config.x = args.x` lines of main; the model
\* class does not set validate_assignment, so the values are stored as given
override(c, a) ==
    [c EXCEPT !.width = IF a.width # 0 THEN a.width ELSE @,
              !.height = IF a.height # 0 THEN a.height ELSE @,
              !.output_quality = IF a.quality # 0 THEN a.quality ELSE @]

\* main applies the command-line options to the loaded config; the composer
\* is constructed from it next
CliOverrides ==
    /\ pc = "args"
    /\ \E a \in CliArgs : cfg' = override(cfg, a)
    /\ pc' = "new"
    /\ UNCHANGED <<parseVars, registry, others, nOps, runNo, prev, call, bIdx,
                   results, started, files, drawn, genVars, planVars, rng,
                   cache, creates, element, err>>

InitCli ==
    /\ IdleParse
    /\ IdleGenerate
    /\ cfg = DefaultConfig
    /\ call = [kind |-> "none", prompts |-> <<>>]
    /\ rng = EntropyRng(1)
    /\ registry = DefaultElements
    /\ cache = EmptyMap /\ creates = NoCreates /\ element = NoElement
    /\ others = <<>> /\ nOps = 0
    /\ pc = "load"
    /\ runNo = 1
    /\ prev = NoRun
    /\ bIdx = 1 /\ results = <<>> /\ started = {} /\ drawn = <<>>
    /\ files = EmptyMap
    /\ err = ""

NextCli == LoadConfig \/ CliOverrides \/ Construct

SpecCli == InitCli /\ [][NextCli]_vars

----------------------------------------------------------------------------
(* A session: one process in which composers are constructed, element classes
   are registered and calls are made one after another *)

MaxOps == 3
MaxParked == 1

SessionConfigs ==
    { [SeededDefault(7) EXCEPT !.min_elements = 1, !.max_elements = 2],
      [DefaultConfig EXCEPT !.min_elements = 1, !.max_elements = 2] }

SessionCalls ==
    { [kind |-> "generate", prompts |-> <<P_empty>>],
      [kind |-> "generate", prompts |-> <<P_sun>>],
      [kind |-> "batch", prompts |-> <<P_sun, P_empty>>] }

InitSession ==
    /\ IdleParse
    /\ IdleGenerate
    /\ cfg \in SessionConfigs
    /\ call \in SessionCalls
    /\ rng = EntropyRng(1)
    /\ registry = DefaultElements
    /\ cache = EmptyMap /\ creates = NoCreates /\ element = NoElement
    /\ others = <<>> /\ nOps = 0
    /\ pc = "new"
    /\ runNo = 1
    /\ prev = NoRun
    /\ bIdx = 1 /\ results = <<>> /\ started = {} /\ drawn = <<>>
    /\ files = EmptyMap
    /\ err = ""

\* ElementFactory.register_element(name, element_class), called before a
\* call on the composer: TypeError for a class that is not a SceneElement
\* subclass, the class stored under the name otherwise
RegisterElement ==
    /\ pc \in {"new", "idle"} /\ nOps < MaxOps
    /\ \E name \in {"tree", "castle"}, cls \in UserClasses :
          IF is_scene_element(cls)
          THEN /\ registry' = register_element(registry, name, cls)
               /\ UNCHANGED <<pc, err>>
          ELSE /\ registry' = registry
               /\ err' = "TypeError"
               /\ pc' = "exit"
    /\ nOps' = nOps + 1
    /\ UNCHANGED <<parseVars, cfg, others, runNo, prev, call, bIdx, results,
                   started, files, drawn, genVars, planVars, rng, cache,
                   creates, element>>

\* ImageGenerator(c) for a further composer, which the next calls are made
\* on: the constructor seeds the random module when c has a seed; the
\* composer used so far is kept aside
Compose ==
    /\ pc = "idle" /\ nOps < MaxOps /\ Len(others) < MaxParked
    /\ \E c \in SessionConfigs :
          /\ cfg' = c
          /\ rng' = setup_random_seed(c, rng)
    /\ others' = Append(others, [cfg |-> cfg, cache |-> cache,
                                 creates |-> creates])
    /\ cache' = EmptyMap
    /\ creates' = NoCreates
    /\ nOps' = nOps + 1
    /\ UNCHANGED <<parseVars, registry, runNo, prev, call, bIdx, results,
                   started, files, drawn, genVars, planVars, element, pc, err>>

\* the next calls are made on a composer that was kept aside
Switch ==
    /\ pc = "idle" /\ nOps < MaxOps
    /\ \E i \in 1..Len(others) :
          /\ cfg' = others[i].cfg
          /\ cache' = others[i].cache
          /\ creates' = others[i].creates
          /\ others' = [others EXCEPT ![i] = [cfg |-> cfg, cache |-> cache,
                                              creates |-> creates]]
    /\ nOps' = nOps + 1
    /\ UNCHANGED <<parseVars, registry, runNo, prev, call, bIdx, results,
                   started, files, drawn, genVars, planVars, rng, element, pc,
                   err>>

\* the caller changes an entry of element_colors in the config object the
\* composer holds
Recolor ==
    /\ pc = "idle" /\ nOps < MaxOps
    /\ \E t \in {"sun"}, color \in {"red"} :
          /\ cfg.element_colors[t] # color
          /\ cfg' = [cfg EXCEPT !.element_colors[t] = color]
    /\ nOps' = nOps + 1
    /\ UNCHANGED <<parseVars, registry, others, runNo, prev, call, bIdx,
                   results, started, files, drawn, genVars, planVars, rng,
                   cache, creates, element, pc, err>>

\* the call returned without an exception: the session goes on to its next
\* call
NextCall ==
    /\ pc = "exit" /\ err = "" /\ nOps < MaxOps
    /\ call' \in SessionCalls
    /\ pc' = "idle"
    /\ bIdx' = 1 /\ results' = <<>> /\ started' = {}
    /\ nOps' = nOps + 1
    /\ UNCHANGED <<parseVars, cfg, registry, others, runNo, prev, files, drawn,
                   genVars, planVars, rng, cache, creates, element, err>>

NextSession ==
    \/ Construct
    \/ RegisterElement
    \/ Recolor
    \/ Compose
    \/ Switch
    \/ NextCall
    \/ CallGenerate
    \/ CallBatchSequential
    \/ BatchNext
    \/ BatchReturn
    \/ ChooseCount
    \/ PlanBegin
    \/ PlanAttempt
    \/ PlanReturn
    \/ DrawElement
    \/ NextType
    \/ Save

SpecSession == InitSession /\ [][NextSession]_vars

----------------------------------------------------------------------------
(* Parse harness: _parse_prompt applied to prompts built from a word pool *)

MaxWords == 2

PromptWords ==
    { <<"s", "u", "n">>, <<"S", "U", "N", "N", "Y">>, <<"T", "r", "e", "e">>,
      <<"w", "o", "o", "d", "s">>, <<"B", "i", "r", "d", "s">>,
      <<"h", "i", "l", "l", "s">>, <<"s", "t", "r", "e", "a", "m">>,
      <<"C", "L", "O", "U", "D", "Y">>, <<"n", "i", "g", "h", "t">>,
      <<"c", "o", "w", "b", "o", "y">>, <<"g", "o", "a", "t", "s">>,
      <<"a">>, <<"w", "i", "t", "h">> }

WordLists == UNION {[1..n -> PromptWords] : n \in 0..MaxWords}

InitParse ==
    /\ pWords \in WordLists
    /\ pResult = <<>>
    /\ pPc = "ready"
    /\ IdleGenerate
    /\ cfg = DefaultConfig
    /\ call = [kind |-> "none", prompts |-> <<>>]
    /\ rng = FreeRng
    /\ registry = DefaultElements
    /\ cache = EmptyMap /\ creates = NoCreates /\ element = NoElement
    /\ others = <<>> /\ nOps = 0
    /\ pc = "off"
    /\ runNo = 1
    /\ prev = NoRun
    /\ bIdx = 1 /\ results = <<>> /\ started = {} /\ drawn = <<>>
    /\ files = EmptyMap
    /\ err = ""

ParseCall ==
    /\ pPc = "ready"
    /\ pResult' = parse_prompt(JoinWords(pWords))
    /\ pPc' = "parsed"
    /\ UNCHANGED <<pWords, procVars, genVars, planVars, rng, cache, creates,
                   element, pc, err>>

SpecParse == InitParse /\ [][ParseCall]_vars

----------------------------------------------------------------------------
(* Claims about _parse_prompt *)

TypeIndex(t) == CHOOSE k \in 1..Len(keywords) : keywords[k].type = t

\* the same words in reverse order
Reversed(ws) == [i \in 1..Len(ws) |-> ws[Len(ws) + 1 - i]]

\* the prompts that differ from JoinWords(ws) only in word order, in the
\* number of occurrences of a word, or in letter case
PromptVariants(ws) ==
    { JoinWords(Reversed(ws)),
      JoinWords(ws \o ws),
      JoinWords(ws \o Reversed(ws)),
      Upper(JoinWords(ws)),
      Lower(JoinWords(ws)),
      Upper(JoinWords(Reversed(ws) \o ws)) }

\* C10: _parse_prompt returns the matched element types, each exactly once
\* and in vocabulary order (strictly increasing position in the keywords
\* dict), and the result is the same for every reordering, repetition and
\* re-casing of the prompt's words.
C10_ParseVocabularyOrder ==
    pPc = "parsed" =>
        /\ \A i \in 1..Len(pResult) : \E k \in 1..Len(keywords) :
               keywords[k].type = pResult[i]
        /\ \A i, j \in 1..Len(pResult) :
               i < j => TypeIndex(pResult[i]) < TypeIndex(pResult[j])
        /\ \A k \in 1..Len(keywords) :
               (\E w \in Range(pWords) : AnyWordIn(keywords[k].words, Lower(w)))
                   => keywords[k].type \in Range(pResult)
        /\ \A v \in PromptVariants(pWords) : parse_prompt(v) = pResult

\* a prompt of two keywords given against vocabulary order and in upper case
C10_Witness ==
    /\ pPc = "parsed"
    /\ pWords = << <<"g", "o", "a", "t", "s">>, <<"S", "U", "N", "N", "Y">> >>
    /\ pResult = <<"sun", "goat">>

\* `word` occurs in `text` at some offset, by comparing character by character
OccursIn(text, word) ==
    \E off \in 0..(Len(text) - Len(word)) :
        \A j \in 1..Len(word) : text[off + j] = word[j]

\* the types one of whose keywords occurs in the lower-cased prompt
TypesOccurring(text) ==
    { keywords[k].type : k \in
        { k2 \in 1..Len(keywords) :
            \E j \in 1..Len(keywords[k2].words) :
                OccursIn(Lower(text), keywords[k2].words[j]) } }

\* C11: a prompt that contains, as a substring and in any letter case, a
\* keyword of type T and no keyword of another type parses to exactly [T];
\* "cowboy" contains "cow" and parses to [cow].
C11_SingleTypeBySubstring ==
    pPc = "parsed" =>
        \A k \in 1..Len(keywords) :
            TypesOccurring(JoinWords(pWords)) = {keywords[k].type}
                => pResult = <<keywords[k].type>>

\* "a cowboy": the keyword occurs inside a longer word
C11_Witness ==
    /\ pPc = "parsed"
    /\ pWords = << <<"a">>, <<"c", "o", "w", "b", "o", "y">> >>
    /\ pResult = <<"cow">>

----------------------------------------------------------------------------
(* Planner harness: _generate_positions(type, count) entered with every     *)
(* type, count and canvas size of the bounds, under a random module that    *)
(* can give every value at every draw                                       *)

MaxCount == 2

CanvasSizes == {<<800, 600>>, <<100, 100>>}

\* the composer _generate_positions is called on: a built-in type on a fresh
\* composer, or the name "castle", not registered or registered with a user
\* class, on a composer that is fresh or has a sun cached
PlanScenarios ==
    { [type |-> t, registry |-> DefaultElements, cache |-> EmptyMap,
       creates |-> NoCreates] : t \in DOMAIN DefaultElements }
    \cup
    { [type |-> "castle",
       registry |-> register_element(DefaultElements, "castle", "Castle"),
       cache |-> EmptyMap, creates |-> NoCreates] }
    \cup
    { [type |-> "castle", registry |-> DefaultElements, cache |-> c.cache,
       creates |-> c.creates] :
        c \in { [cache |-> EmptyMap, creates |-> NoCreates],
                [cache |-> get_element(EmptyMap, DefaultElements, "sun",
                                       "yellow", 1),
                 creates |-> [NoCreates EXCEPT !["sun"] = 1]] } }

InitPlan ==
    /\ IdleParse
    /\ \E size \in CanvasSizes :
          cfg = [DefaultConfig EXCEPT !.width = size[1], !.height = size[2]]
    /\ call = [kind |-> "none", prompts |-> <<>>]
    /\ rng = FreeRng
    /\ \E sc \in PlanScenarios :
          /\ types = <<sc.type>>
          /\ registry = sc.registry
          /\ cache = sc.cache
          /\ creates = sc.creates
    /\ element = NoElement
    /\ others = <<>> /\ nOps = 0
    /\ pc = "planBegin"
    /\ runNo = 1
    /\ prev = NoRun
    /\ bIdx = 1 /\ results = <<>> /\ started = {} /\ drawn = <<>>
    /\ files = EmptyMap
    /\ err = ""
    /\ prompt = <<>> /\ outPath = <<>> /\ counts = <<>> /\ canvas = <<>>
    /\ tIdx = 1
    /\ count \in 0..MaxCount
    /\ positions = <<>> /\ attempts = 0 /\ dIdx = 1

NextPlan == PlanBegin \/ PlanAttempt \/ PlanReturn

SpecPlan == InitPlan /\ [][NextPlan]_vars

\* the planner called directly, as above, or from the generate calls of the
\* program; a direct call ends when the planner returns or raises
InitPlanOrRun == InitPlan \/ Init

NextPlanOrRun ==
    \/ Construct
    \/ CallGenerate
    \/ CallBatchSequential
    \/ CallBatchParallel
    \/ BatchNext
    \/ BatchReturn
    \/ ChooseCount
    \/ PlanBegin
    \/ PlanAttempt
    \/ PlanReturn
    \/ call.kind # "none" /\ DrawElement
    \/ call.kind # "none" /\ NextType
    \/ Save
    \/ call.kind # "none" /\ Rerun

SpecPlanOrRun == InitPlanOrRun /\ [][NextPlanOrRun]_vars

----------------------------------------------------------------------------
(* Claims about _generate_positions (checked under SpecPlan) *)

\* the planner is running or has returned
Planning == pc \in {"plan", "draw"}
Returned == pc = "draw"

BoxesDisjoint(b1, b2) ==
    b1[3] < b2[1] \/ b1[1] > b2[3] \/ b1[4] < b2[2] \/ b1[2] > b2[4]

\* the class of the element the planner works with
PlanClass == registry[types[tIdx]]

\* every position a draw can give for the type on the canvas
Candidates ==
    { <<ox.v, oy.v>> :
        ox \in randint(FreeRng, 50, cfg.width - 50),
        oy \in randint(FreeRng, y_range(types[tIdx], cfg.height)[1],
                                y_range(types[tIdx], cfg.height)[2]) }

\* n more positions of `cands` exist whose boxes are disjoint from each other
\* and from the boxes of the positions in `chosen`
RECURSIVE FitMore(_, _, _)
FitMore(n, chosen, cands) ==
    \/ n <= 0
    \/ \E p \in cands :
          /\ \A q \in chosen : BoxesDisjoint(get_bounds(PlanClass, p),
                                             get_bounds(PlanClass, q))
          /\ FitMore(n - 1, chosen \cup {p}, cands)

\* n candidates with pairwise disjoint boxes exist
CanFit(n) == FitMore(n, {}, Candidates)

\* C2: the positions _generate_positions accepts number at most count and
\* the bounding boxes of any two of them do not intersect.
C2_NonOverlapping ==
    Planning =>
        /\ Len(positions) <= count
        /\ \A i, j \in 1..Len(positions) :
              i # j => BoxesDisjoint(get_bounds(PlanClass, positions[i]),
                                     get_bounds(PlanClass, positions[j]))

\* two positions were accepted and at least one draw was rejected
C2_Witness ==
    Returned /\ Len(positions) = 2 /\ attempts > 2 /\ types = <<"tree">>

\* C3: the planner never makes more than 10 * count attempts, and when count
\* positions cannot fit it returns fewer than count positions, with no error.
C3_BoundedAttempts ==
    /\ Planning => attempts <= 10 * count
    /\ (Returned /\ ~CanFit(count)) => (Len(positions) < count /\ err = "")

\* two rivers asked for on 800 x 600, where one fits: all 20 attempts used
C3_Witness ==
    /\ Returned /\ ~CanFit(count)
    /\ types = <<"river">> /\ cfg.width = 800 /\ count = 2
    /\ attempts = 20 /\ Len(positions) = 1

\* the sampling region is at least 50 times the area of count boxes, and
\* count boxes fit
Comfortable ==
    LET b == get_bounds(PlanClass, <<0, 0>>)
        yr == y_range(types[tIdx], cfg.height)
    IN  /\ (cfg.width - 100) * (yr[2] - yr[1])
               >= 50 * count * (b[3] - b[1]) * (b[4] - b[2])
        /\ CanFit(count)

\* C4 as stated: with comfortable room exactly count positions are returned
\* whatever the draws.
C4_AlwaysExactlyCount ==
    (Returned /\ Comfortable) => Len(positions) = count

\* C4 as amended: with comfortable room the planner returns exactly count
\* positions if and only if at most 9 * count draws were rejected; otherwise
\* all 10 * count attempts are used and fewer positions are returned, at
\* least one when count >= 1.
C4_ExactUnlessExhausted ==
    (Returned /\ Comfortable) =>
        /\ (Len(positions) = count) <=> (attempts - Len(positions) <= 9 * count)
        /\ Len(positions) < count => attempts = 10 * count
        /\ count >= 1 => Len(positions) >= 1

\* two stars on 800 x 600 placed after some rejected draws
C4_Witness ==
    /\ Returned /\ Comfortable
    /\ types = <<"star">> /\ cfg.width = 800 /\ count = 2
    /\ Len(positions) = 2 /\ attempts > 2

\* how many draw calls on the canvas are of type t
DrawnOf(t) == Cardinality({i \in 1..Len(canvas) : canvas[i].type = t})

\* C22: for every type _generate_positions returns at least one position
\* when count >= 1 (the first candidate meets an empty accepted list) and
\* none when count = 0; hence every type a generate call has gone through is
\* drawn at least once and at most max_elements times.
C22_AtLeastOnePosition ==
    /\ (pc = "plan" /\ attempts >= 1) => Len(positions) >= 1
    /\ (Returned /\ count >= 1) => Len(positions) >= 1
    /\ (Returned /\ count = 0) => (positions = <<>> /\ attempts = 0)
    /\ (call.kind # "none" /\ pc = "count") =>
          \A k \in 1..(tIdx - 1) :
              DrawnOf(types[k]) >= 1 /\ DrawnOf(types[k]) <= cfg.max_elements

\* three clouds were asked for and one was placed: every later candidate
\* met the first
C22_Witness ==
    /\ Returned /\ call.kind = "none"
    /\ count >= 2 /\ Len(positions) = 1 /\ attempts = 10 * count
    /\ types = <<"cloud">>

\* C13: ElementFactory.create for a name that is not registered fails with
\* an error and returns no element; when that happens inside _get_element the
\* cache is left as it was: no entry for the name, the entries it had kept.
C13_UnknownTypeLeavesCache ==
    [][ (pc = "planBegin" /\ types[tIdx] \notin DOMAIN cache
                         /\ types[tIdx] \notin DOMAIN registry)
        => /\ err' = "ValueError: unknown element type"
           /\ pc' = "exit"
           /\ element' = element
           /\ creates' = creates
           /\ cache' = cache ]_vars

\* the planner was asked for an unregistered name on a composer with a
\* cached sun, and the call has failed
C13_Witness ==
    /\ err = "ValueError: unknown element type"
    /\ types = <<"castle">>
    /\ DOMAIN cache = {"sun"}
    /\ element = NoElement

SkyTypes == {"sun", "bird", "cloud", "star"}
GroundTypes == {"tree", "mountain", "river", "cow", "goat"}

\* C16: every position the planner accepts has x in [50, width - 50] and y
\* inside the band of its type; on every valid canvas size the band of a sky
\* type lies in the top third of the canvas and the band of a ground type in
\* the bottom third; a type without a band uses y in [0, height].
C16_BandsByThirds ==
    (Planning /\ ValidConfig(cfg)) =>
        LET band == y_range(types[tIdx], cfg.height)
        IN  /\ \A i \in 1..Len(positions) :
                  /\ 50 <= positions[i][1]
                  /\ positions[i][1] <= cfg.width - 50
                  /\ band[1] <= positions[i][2]
                  /\ positions[i][2] <= band[2]
            /\ types[tIdx] \in SkyTypes =>
                  0 <= band[1] /\ 3 * band[2] <= cfg.height
            /\ types[tIdx] \in GroundTypes =>
                  2 * cfg.height <= 3 * band[1] /\ band[2] <= cfg.height
            /\ types[tIdx] \notin SkyTypes \cup GroundTypes =>
                  band = <<0, cfg.height>>

----------------------------------------------------------------------------
(* Claims about generate and generate_batch (checked under Spec) *)

\* generate is between its parse and its save
Generating == pc \in {"count", "planBegin", "plan", "draw"}

Exited == pc = "exit"
Seeded == cfg.seed # NoSeed
IsBatch == call.kind = "batch"

\* a generate call raised
GenerateFailed == err \in {"ValueError: empty range", "OSError"}

\* C1: for a validated configuration every count chosen lies in
\* [min_elements, min(max_elements, 3 * number of types)] and choosing the
\* count never fails on an empty range.
C1_CountRangeNeverEmpty ==
    ValidConfig(cfg) =>
        /\ err # "ValueError: empty range"
        /\ \A i \in 1..Len(counts) :
              /\ cfg.min_elements <= counts[i][2]
              /\ counts[i][2] <= cfg.max_elements
              /\ counts[i][2] <= 3 * Len(types)

\* C5: a batch in which no generate call fails returns one path per prompt,
\* the i-th being the output path of the i-th prompt, in either mode.
C5_BatchOrder ==
    (Exited /\ IsBatch /\ ~GenerateFailed) =>
        /\ Len(results) = Len(call.prompts)
        /\ \A i \in 1..Len(results) :
              results[i] = OutputPath(call.prompts[i], cfg)

\* C6: when generate fails for one prompt of a batch because its image
\* cannot be saved, generate is still called for every other prompt of the
\* batch.
C6_FailureIsolated ==
    (Exited /\ IsBatch /\ err = "OSError") =>
        started = 1..Len(call.prompts)

\* C7: in a seeded parallel batch every prompt is generated by a worker that
\* draws from a random stream of its own, so that the drawings of two workers
\* given the same prompt are not the same drawing by construction.
C7_WorkerStreams ==
    (Exited /\ IsBatch /\ cfg.parallel_processing /\ Seeded) =>
        /\ err = ""
        /\ Len(drawn) = Len(call.prompts)
        /\ \A i \in 1..Len(drawn) : drawn[i].prompt = call.prompts[i]

\* C8: two runs of a seeded batch in which no generate call fails produce the
\* same drawing for each prompt, in parallel as in sequential mode.
C8_BatchReproducible ==
    (Exited /\ IsBatch /\ Seeded /\ runNo >= 2
        /\ ~GenerateFailed /\ prev.err \notin {"ValueError: empty range", "OSError"}) =>
        /\ Len(drawn) = Len(call.prompts)
        /\ drawn = prev.drawn

\* C9: two runs of the program with the same seed, configuration and prompt
\* choose the same counts and make the same draw calls, decorations included.
C9_Deterministic ==
    (Exited /\ call.kind = "generate" /\ Seeded /\ runNo >= 2) =>
        /\ counts = prev.counts
        /\ canvas = prev.canvas

\* the second seeded run of "cow by the river" has drawn a River with its 16
\* wave heights and a Cow with its 15 spot values
C9_Witness ==
    /\ Exited /\ call.kind = "generate" /\ Seeded /\ runNo = 2
    /\ call.prompts = <<P_cowRiver>>
    /\ \E i \in 1..Len(canvas) :
          canvas[i].cls = "River" /\ Len(canvas[i].deco) = 16
    /\ \E i \in 1..Len(canvas) :
          canvas[i].cls = "Cow" /\ Len(canvas[i].deco) = 15
    /\ canvas = prev.canvas

\* the place of a type in element_types
TypePos(t) == CHOOSE k \in 1..Len(types) : types[k] = t

\* the last n draw calls are the first n planned positions of type t, in
\* planner order
LastDrawsAre(n, t) ==
    /\ Len(canvas) >= n
    /\ \A i \in 1..n :
          /\ canvas[Len(canvas) - n + i].type = t
          /\ canvas[Len(canvas) - n + i].position = positions[i]

\* C17: within one generate call the draw calls are ordered by type, in
\* parse order, and within a type by the order the planner accepted the
\* positions; every position of a type is planned and drawn before the next
\* type is planned.
C17_DrawOrder ==
    Generating =>
        /\ \A e \in Range(canvas) : e.type \in Range(types)
        /\ \A i, j \in 1..Len(canvas) :
              i < j => TypePos(canvas[i].type) <= TypePos(canvas[j].type)
        /\ pc = "draw" =>
              /\ LastDrawsAre(dIdx - 1, types[tIdx])
              /\ \A i \in 1..(Len(canvas) - (dIdx - 1)) :
                    TypePos(canvas[i].type) < tIdx
        /\ (pc \in {"count", "planBegin"} /\ tIdx > 1) =>
              LastDrawsAre(Len(positions), types[tIdx - 1])
        /\ pc \in {"planBegin", "plan"} =>
              \A e \in Range(canvas) : TypePos(e.type) < tIdx

\* the second type is being planned after two positions of the first were
\* drawn
C17_Witness ==
    /\ pc = "plan" /\ tIdx = 2
    /\ Len(canvas) = 2
    /\ canvas[1].position # canvas[2].position

\* the last of the first k prompts that has the output path of prompt i
LastWithPath(i, k) ==
    CHOOSE j \in i..k :
        /\ OutputPath(call.prompts[j], cfg) = OutputPath(call.prompts[i], cfg)
        /\ \A j2 \in (j + 1)..k :
              OutputPath(call.prompts[j2], cfg)
                  # OutputPath(call.prompts[i], cfg)

\* C19: a sequential batch generates its prompts strictly in list order
\* and, starting from an empty output directory, at every point the saved
\* images are exactly the images of a prefix of the prompt list: each
\* completed prompt has its image at its path, no other prompt has left one.
C19_SavedIsPrefix ==
    (IsBatch /\ ~cfg.parallel_processing /\ runNo = 1) =>
        LET k == Len(results)
        IN  /\ k <= Len(call.prompts)
            /\ started \in {1..k, 1..(k + 1)}
            /\ Generating => (started = 1..(k + 1)
                               /\ prompt = call.prompts[k + 1])
            /\ DOMAIN files =
                  {OutputPath(call.prompts[i], cfg) : i \in 1..k}
            /\ \A i \in 1..k :
                  /\ results[i] = OutputPath(call.prompts[i], cfg)
                  /\ files[results[i]] = drawn[LastWithPath(i, k)].canvas

\* a batch of two prompts that ended at the save of the second image: the
\* first image is there, alone
C19_Witness ==
    /\ IsBatch /\ runNo = 1 /\ pc = "exit" /\ err = "OSError"
    /\ call.prompts = <<P_starGoat, P_cowRiver>>
    /\ Len(results) = 1
    /\ DOMAIN files = {OutputPath(P_starGoat, cfg)}

\* the candidate the next attempt of the planner draws (the random stream is
\* a function of its state under Spec)
NextCandidate ==
    LET ox == CHOOSE o \in randint(rng, 50, cfg.width - 50) : TRUE
        oy == CHOOSE o \in
                  randint(ox.rng, y_range(types[tIdx], cfg.height)[1],
                                  y_range(types[tIdx], cfg.height)[2]) : TRUE
    IN  <<ox.v, oy.v>>

\* C20: a candidate is tested for overlap only against the positions
\* accepted so far in the current _generate_positions call, which are of its
\* own type: it is accepted exactly when its box is disjoint from each of
\* them, whatever other types or earlier generate calls have placed, and each
\* call starts from no accepted position; elements of different types may
\* overlap.
C20_OverlapSameTypeOnly ==
    [][ /\ (pc = "planBegin" /\ pc' = "plan") => positions' = <<>>
        /\ (pc = "plan" /\ attempts' = attempts + 1) =>
              positions' =
                  IF \A i \in 1..Len(positions) :
                        BoxesDisjoint(
                            get_bounds(element.cls, NextCandidate),
                            get_bounds(element.cls, positions[i]))
                  THEN Append(positions, NextCandidate)
                  ELSE positions ]_vars

\* two elements of different types are drawn with intersecting boxes
C20_Witness ==
    \E i, j \in 1..Len(canvas) :
        /\ canvas[i].type # canvas[j].type
        /\ ~BoxesDisjoint(get_bounds(canvas[i].cls, canvas[i].position),
                          get_bounds(canvas[j].cls, canvas[j].position))

\* the prompt with every space turned into an underscore
Underscored(p) ==
    [i \in 1..Len(p) |-> IF p[i] = " " THEN "_" ELSE p[i]]

\* the file name the prompt stands for: underscored prompt, a dot, the
\* lower-cased format
FileNameOf(p) == Underscored(p) \o <<".">> \o Lower(cfg.output_format)

\* the last prompt of the batch that has the file name of prompt i
LastSameName(i) ==
    CHOOSE j \in i..Len(call.prompts) :
        /\ Underscored(call.prompts[j]) = Underscored(call.prompts[i])
        /\ \A j2 \in (j + 1)..Len(call.prompts) :
              Underscored(call.prompts[j2]) # Underscored(call.prompts[i])

\* C24: the output path of a prompt is a function of the prompt alone, its
\* spaces replaced by underscores plus the format extension; in a sequential
\* batch two prompts that are equal after the replacement get the same path,
\* the returned list still has one entry per prompt, and after the batch the
\* file at that path holds the image of the last such prompt.
C24_SamePathLastWins ==
    (Exited /\ IsBatch /\ ~cfg.parallel_processing /\ err = "") =>
        /\ Len(results) = Len(call.prompts)
        /\ \A i \in 1..Len(call.prompts) :
              /\ results[i] = FileNameOf(call.prompts[i])
              /\ files[results[i]] = drawn[LastSameName(i)].canvas
        /\ \A i, j \in 1..Len(call.prompts) :
              Underscored(call.prompts[i]) = Underscored(call.prompts[j])
                  => results[i] = results[j]

\* "a sun" and "a_sun" were generated to one path; the two images differ and
\* the file holds the second
C24_Witness ==
    /\ Exited /\ IsBatch /\ err = ""
    /\ call.prompts = <<P_aSun, P_a_sun>>
    /\ Len(results) = 2 /\ results[1] = results[2]
    /\ drawn[1].canvas # drawn[2].canvas
    /\ files[results[1]] = drawn[2].canvas

----------------------------------------------------------------------------
(* Claims about sessions (checked under SpecSession) *)

\* C12: when no keyword of any type occurs in the prompt (the empty prompt
\* included), generate works on the default types [tree, sun] and never ends
\* with the unknown-element-type error, whatever register_element calls were
\* made before.
C12_DefaultTypesAlwaysKnown ==
    TypesOccurring(prompt) = {} =>
        /\ Generating => types = <<"tree", "sun">>
        /\ err # "ValueError: unknown element type"

\* the empty prompt generated to the end after "tree" was registered again
\* with a user class
C12_Witness ==
    /\ pc = "exit" /\ err = ""
    /\ call = [kind |-> "generate", prompts |-> <<P_empty>>]
    /\ registry["tree"] = "Castle"
    /\ "tree" \in DOMAIN cache /\ "sun" \in DOMAIN cache
    /\ Len(canvas) >= 2

\* a call is running on the composer in use
InCall == Generating \/ pc = "batch"

\* C18: over any sequence of generate and sequential generate_batch calls a
\* composer asks ElementFactory.create at most once per type, every overlap
\* test and every draw of a type uses the one instance it cached, and a call
\* on one composer never changes the cache of another composer.
C18_OneInstancePerType ==
    /\ [](/\ \A t \in TypeNames : creates[t] <= 1
          /\ \A i \in 1..Len(others) :
                \A t \in TypeNames : others[i].creates[t] <= 1
          /\ \A t \in DOMAIN cache : creates[t] = 1 /\ cache[t].no = 1
          /\ pc \in {"plan", "draw"} => element = cache[types[tIdx]]
          /\ Generating =>
                \A i \in 1..Len(canvas) :
                    /\ canvas[i].no = cache[canvas[i].type].no
                    /\ canvas[i].cls = cache[canvas[i].type].cls)
    /\ [][(InCall \/ InCall') => others' = others]_vars

\* two composers have each cached a sun, two drawings are finished and a
\* third generate call is drawing suns
C18_Witness ==
    /\ Len(others) = 1
    /\ "sun" \in DOMAIN others[1].cache /\ "sun" \in DOMAIN cache
    /\ Len(drawn) >= 2
    /\ pc = "draw" /\ types[tIdx] = "sun" /\ Len(canvas) >= 1

\* C14: register_element rejects every class that lacks draw or get_bounds
\* and leaves the registry as it was, so every registered class has a
\* working get_bounds and no overlap test ever raises NotImplementedError.
C14_RegistryCapable ==
    /\ \A t \in DOMAIN registry :
          is_scene_element(registry[t]) /\ has_get_bounds(registry[t])
    /\ err # "NotImplementedError"

\* C23: once a composer has cached the element of a type, later changes do
\* not reach it: whatever register_element stores under the name and
\* whatever element_colors says afterwards, the cached instance stays as it
\* is and every later generate call on that composer draws with its class
\* and colour; a composer that caches the type later gets the class and the
\* colour that are current then.
C23_CachedElementIsFrozen ==
    /\ [](Generating =>
            \A i \in 1..Len(canvas) :
                /\ canvas[i].cls = cache[canvas[i].type].cls
                /\ canvas[i].color = cache[canvas[i].type].color)
    /\ [][others' = others =>
            \A t \in DOMAIN cache' :
                IF t \in DOMAIN cache
                THEN cache'[t] = cache[t]
                ELSE /\ cache'[t].cls = registry[t]
                     /\ cache'[t].color = element_color(cfg, t)]_vars

\* a later generate call draws a tree of the class and a sun of the colour
\* its composer cached, after "tree" was registered with another class and
\* the sun colour was changed
C23_Witness ==
    /\ pc = "count" /\ tIdx > Len(types) /\ Len(drawn) >= 1
    /\ types = <<"tree", "sun">>
    /\ registry["tree"] = "Castle" /\ cache["tree"].cls = "Tree"
    /\ cfg.element_colors["sun"] = "red" /\ cache["sun"].color = "yellow"
    /\ \E i, j \in 1..Len(canvas) :
          /\ canvas[i].cls = "Tree"
          /\ canvas[j].type = "sun" /\ canvas[j].color = "yellow"

\* a composer kept aside was constructed with a seed
SeededAside == \E i \in 1..Len(others) : others[i].cfg.seed # NoSeed

\* C21: what a seeded composer produces does not depend on unrelated code:
\* the random source is seeded at most once per process, so constructing a
\* further composer next to a seeded one leaves the random stream as it is,
\* and while a seeded composer is kept aside neither a construction nor a
\* generate call on another composer moves the stream its next call draws
\* from.
C21_SeededStreamUntouched ==
    [][ /\ (Len(others') > Len(others) /\ (Seeded \/ SeededAside))
              => rng' = rng
        /\ (others' = others /\ SeededAside) => rng' = rng ]_vars

----------------------------------------------------------------------------
(* Claims about the configuration (checked under SpecCli) *)

\* C15: the configuration a composer generates with has width and height in
\* [100, 4000] and output_quality in [1, 100], whether it comes from the
\* defaults, from a --config file, or from either with --width, --height or
\* --quality applied on top.
C15_ConfigInRange ==
    (pc \in {"args", "new", "idle"} /\ err = "") =>
        /\ cfg.width >= 100 /\ cfg.width <= 4000
        /\ cfg.height >= 100 /\ cfg.height <= 4000
        /\ cfg.output_quality >= 1 /\ cfg.output_quality <= 100

====
